---- MODULE Spec2Model ----
(***************************************************************************)
(* The Signal Chat Session of AiSignalChatModal.tsx: sendMessage and its   *)
(* server-sent-event decoder, handleSSEEvent, loadMessages,                *)
(* loadConversations and startNewConversation, as a state machine over the *)
(* React state of the component.  Text is modelled character by character  *)
(* (a string is a sequence of one-character strings) and the response body *)
(* byte by byte, so that a chunk boundary may fall anywhere.               *)
(***************************************************************************)
EXTENDS Integers, Sequences, FiniteSets, TLC

(***************************************************************************)
(* Bounds of the model.                                                    *)
(***************************************************************************)
\* sendMessage calls that get past the guard, per behaviour
MaxSends == 2
\* loadMessages fetches in flight at a time, per conversation
MaxLoads == 1
\* the cards the panel shows at most
MaxCards == 2

(***************************************************************************)
(* Values.  null, undefined and 0 are all falsy for the checks the code    *)
(* makes on ids (!selectedAccountId, !currentConversationId,               *)
(* if (updates.conversationId)); ids are positive, Null is 0.  An optional *)
(* field is a sequence of length at most one: None is undefined.           *)
(***************************************************************************)
Null == 0
None == << >>
Some(x) == <<x>>
\* Date.now() of the first send; server-side ids are far below it
BaseTime == 1000

(***************************************************************************)
(* String literals of the source, as character sequences.                  *)
(***************************************************************************)
EventPrefix == <<"e", "v", "e", "n", "t", ":", " ">>
DataPrefix == <<"d", "a", "t", "a", ":", " ">>
T_status == <<"s", "t", "a", "t", "u", "s">>
T_reasoning == <<"r", "e", "a", "s", "o", "n", "i", "n", "g">>
T_content == <<"c", "o", "n", "t", "e", "n", "t">>
T_signal_config == <<"s", "i", "g", "n", "a", "l", "_", "c", "o", "n", "f", "i", "g">>
T_done == <<"d", "o", "n", "e">>
T_error == <<"e", "r", "r", "o", "r">>
T_tool_call == <<"t", "o", "o", "l", "_", "c", "a", "l", "l">>
T_tool_result == <<"t", "o", "o", "l", "_", "r", "e", "s", "u", "l", "t">>
T_ping == <<"p", "i", "n", "g">>
S_Connecting == <<"C", "o", "n", "n", "e", "c", "t", "i", "n", "g", ".", ".", ".">>
S_Thinking == <<"T", "h", "i", "n", "k", "i", "n", "g", ":", " ">>
S_Dots == <<".", ".", ".">>
S_Calling == <<"C", "a", "l", "l", "i", "n", "g", " ">>
S_GotResultFrom == <<"G", "o", "t", " ", "r", "e", "s", "u", "l", "t", " ", "f", "r", "o", "m", " ">>
S_undefined == <<"u", "n", "d", "e", "f", "i", "n", "e", "d">>
S_FailedToSend == <<"F", "a", "i", "l", "e", "d", " ", "t", "o", " ", "s", "e", "n", "d", " ", "m", "e", "s", "s", "a", "g", "e">>
S_AIGenerationFailed == <<"A", "I", " ", "g", "e", "n", "e", "r", "a", "t", "i", "o", "n", " ", "f", "a", "i", "l", "e", "d">>
J_statusA == <<"{", "\"", "m", "e", "s", "s", "a", "g", "e", "\"", ":", "\"", "A", "\"", "}">>
J_contentH == <<"{", "\"", "c", "o", "n", "t", "e", "n", "t", "\"", ":", "\"", "h", "U+E9", "\"", "}">>
J_contentK == <<"{", "\"", "c", "o", "n", "t", "e", "n", "t", "\"", ":", "\"", "k", "\"", "}">>
J_cfgA == <<"{", "\"", "c", "o", "n", "f", "i", "g", "\"", ":", "{", "\"", "n", "a", "m", "e", "\"", ":", "\"", "a", "\"", "}", "}">>
J_cfgB == <<"{", "\"", "c", "o", "n", "f", "i", "g", "\"", ":", "{", "\"", "n", "a", "m", "e", "\"", ":", "\"", "b", "\"", "}", "}">>
J_cfgBad == <<"{", "\"", "c", "o", "n", "f", "i", "g", "\"", ":", "{", "\"", "n", "a", "m", "e", "\"", ":">>
J_done == <<"{", "\"", "c", "o", "n", "v", "e", "r", "s", "a", "t", "i", "o", "n", "_", "i", "d", "\"", ":", "2", ",", "\"", "m", "e", "s", "s", "a", "g", "e", "_", "i", "d", "\"", ":", "4", "2", ",", "\"", "c", "o", "n", "t", "e", "n", "t", "\"", ":", "\"", "h", "U+E9", "\"", ",", "\"", "s", "i", "g", "n", "a", "l", "_", "c", "o", "n", "f", "i", "g", "s", "\"", ":", "[", "{", "\"", "n", "a", "m", "e", "\"", ":", "\"", "a", "\"", "}", "]", "}">>
J_doneNoCfg == <<"{", "\"", "c", "o", "n", "v", "e", "r", "s", "a", "t", "i", "o", "n", "_", "i", "d", "\"", ":", "2", ",", "\"", "m", "e", "s", "s", "a", "g", "e", "_", "i", "d", "\"", ":", "4", "2", ",", "\"", "c", "o", "n", "t", "e", "n", "t", "\"", ":", "\"", "k", "\"", ",", "\"", "s", "i", "g", "n", "a", "l", "_", "c", "o", "n", "f", "i", "g", "s", "\"", ":", "[", "]", "}">>
J_reason == <<"{", "\"", "c", "o", "n", "t", "e", "n", "t", "\"", ":", "\"", "r", "\"", "}">>
J_call == <<"{", "\"", "n", "a", "m", "e", "\"", ":", "\"", "t", "\"", ",", "\"", "a", "r", "g", "u", "m", "e", "n", "t", "s", "\"", ":", "{", "\"", "q", "\"", ":", "1", "}", "}">>
J_result == <<"{", "\"", "n", "a", "m", "e", "\"", ":", "\"", "t", "\"", ",", "\"", "r", "e", "s", "u", "l", "t", "\"", ":", "{", "\"", "v", "\"", ":", "1", "}", "}">>
J_errorE == <<"{", "\"", "m", "e", "s", "s", "a", "g", "e", "\"", ":", "\"", "E", "\"", "}">>
J_errorNone == <<"{", "}">>

(***************************************************************************)
(* String primitives of the runtime.                                       *)
(***************************************************************************)
Whitespace == {" ", "\n", "\r", "\t"}

\* String.prototype.startsWith
StartsWith(s, p) == Len(s) >= Len(p) /\ SubSeq(s, 1, Len(p)) = p

\* String.prototype.slice(from), from counted from 0
SliceFrom(s, from) == SubSeq(s, from + 1, Len(s))

\* String.prototype.slice(0, to)
SliceTo(s, to) == SubSeq(s, 1, IF to < Len(s) THEN to ELSE Len(s))

\* the least and the greatest element of a non-empty set of numbers
Min(S) == CHOOSE i \in S : \A j \in S : i <= j
Max(S) == CHOOSE i \in S : \A j \in S : j <= i

\* String.prototype.trim
Trim(s) ==
  LET keep == {i \in 1..Len(s) : s[i] \notin Whitespace}
  IN IF keep = {} THEN << >> ELSE SubSeq(s, Min(keep), Max(keep))

\* String.prototype.split('\n'): the pieces between the line feeds, the
\* last piece being what follows the last line feed
RECURSIVE Split(_)
Split(s) ==
  LET nls == {i \in 1..Len(s) : s[i] = "\n"}
  IN IF nls = {} THEN <<s>>
     ELSE LET i == Min(nls)
          IN <<SubSeq(s, 1, i - 1)>> \o Split(SubSeq(s, i + 1, Len(s)))

\* all but the last element (what is left of lines after lines.pop())
Front(q) == SubSeq(q, 1, Len(q) - 1)
Last(q) == q[Len(q)]

(***************************************************************************)
(* TextDecoder.decode(value, {stream: true}) for UTF-8.  The one two-byte  *)
(* character of the model is U+E9, the bytes xC3 xA9; every other          *)
(* character is one byte, written as the character itself.  The decoder    *)
(* keeps the lead byte of an unfinished character for the next call.       *)
(***************************************************************************)
\* the bytes of the text s (the halves keep the evaluation shallow)
RECURSIVE Utf8Encode(_)
Utf8Encode(s) ==
  IF s = << >> THEN << >>
  ELSE IF Len(s) = 1 THEN (IF s[1] = "U+E9" THEN <<"xC3", "xA9">> ELSE s)
  ELSE LET h == Len(s) \div 2
       IN Utf8Encode(SubSeq(s, 1, h)) \o Utf8Encode(SubSeq(s, h + 1, Len(s)))

\* the concatenation of the sequences of q (the halves keep the evaluation
\* shallow)
RECURSIVE Flatten(_)
Flatten(q) ==
  IF q = << >> THEN << >>
  ELSE IF Len(q) = 1 THEN q[1]
  ELSE LET h == Len(q) \div 2
       IN Flatten(SubSeq(q, 1, h)) \o Flatten(SubSeq(q, h + 1, Len(q)))

\* what the decoder emits for byte i of all, the bytes it has been given
\* since its last complete character: a lead byte waits for its continuation
\* byte, and a byte out of place becomes U+FFFD
Emit(all, i) ==
  IF all[i] = "xC3"
  THEN IF i = Len(all) \/ all[i + 1] = "xA9" THEN << >> ELSE <<"U+FFFD">>
  ELSE IF all[i] = "xA9"
  THEN IF i > 1 /\ all[i - 1] = "xC3" THEN <<"U+E9">> ELSE <<"U+FFFD">>
  ELSE <<all[i]>>

\* decoder.decode(value, {stream: true}): [pending, text], pending being the
\* bytes kept from the calls before
DecodeStream(pending, value) ==
  LET all == pending \o value
  IN [pending |-> IF all # << >> /\ all[Len(all)] = "xC3" THEN <<"xC3">> ELSE << >>,
      text |-> Flatten([i \in 1..Len(all) |-> Emit(all, i)])]

(***************************************************************************)
(* JSON.parse.  The documents the server sends are the texts of JsonDocs,  *)
(* each with the value it parses to; JSON.parse ignores surrounding        *)
(* whitespace and throws on every other text of the model (a cut-off       *)
(* object is not JSON).                                                    *)
(***************************************************************************)
CfgA == [name |-> <<"a">>]
CfgB == [name |-> <<"b">>]
\* conversation_id and message_id of the done records
DoneConversationId == 2
DoneMessageId == 42

V_statusA == [message |-> <<"A">>]
V_contentH == [content |-> <<"h", "U+E9">>]
V_contentK == [content |-> <<"k">>]
V_cfgA == [config |-> CfgA]
V_cfgB == [config |-> CfgB]
V_done == [conversation_id |-> DoneConversationId, message_id |-> DoneMessageId,
           content |-> <<"h", "U+E9">>, signal_configs |-> <<CfgA>>]
V_doneNoCfg == [conversation_id |-> DoneConversationId, message_id |-> DoneMessageId,
                content |-> <<"k">>, signal_configs |-> << >>]
V_reason == [content |-> <<"r">>]
V_call == [name |-> <<"t">>, arguments |-> [q |-> 1]]
V_result == [name |-> <<"t">>, result |-> [v |-> 1]]
V_errorE == [message |-> <<"E">>]
V_errorNone == [code |-> 1]

JsonDocs ==
  << [text |-> J_statusA, value |-> V_statusA],
     [text |-> J_contentH, value |-> V_contentH],
     [text |-> J_contentK, value |-> V_contentK],
     [text |-> J_cfgA, value |-> V_cfgA],
     [text |-> J_cfgB, value |-> V_cfgB],
     [text |-> J_done, value |-> V_done],
     [text |-> J_doneNoCfg, value |-> V_doneNoCfg],
     [text |-> J_reason, value |-> V_reason],
     [text |-> J_call, value |-> V_call],
     [text |-> J_result, value |-> V_result],
     [text |-> J_errorE, value |-> V_errorE],
     [text |-> J_errorNone, value |-> V_errorNone] >>

\* JSON.parse(s): [ok |-> TRUE, value |-> v], or [ok |-> FALSE] when it throws
JSONParse(s) ==
  LET t == Trim(s)
      hits == {i \in 1..Len(JsonDocs) : JsonDocs[i].text = t}
  IN IF hits = {} THEN [ok |-> FALSE]
     ELSE [ok |-> TRUE, value |-> JsonDocs[Min(hits)].value]

\* data.k, undefined when the object has no such property
Get(data, k) == IF k \in DOMAIN data THEN Some(data[k]) ELSE None

IsDefined(opt) == Len(opt) > 0

(***************************************************************************)
(* Messages and analysis entries.                                          *)
(***************************************************************************)
Msg(id, role, content, configs, streaming, status, log) ==
  [id |-> id, role |-> role, content |-> content, signal_configs |-> configs,
   isStreaming |-> streaming, statusText |-> status, analysisLog |-> log]

AnalysisEntry(type, content, name, arguments, result) ==
  [type |-> type, content |-> content, name |-> name,
   arguments |-> arguments, result |-> result]

\* the messages of the list prev
Range(prev) == {prev[i] : i \in 1..Len(prev)}

\* prev.map(m => m.id === msgId ? f[m] : m), for f a function on Range(prev)
MapMsg(prev, msgId, f) ==
  [i \in 1..Len(prev) |-> IF prev[i].id = msgId THEN f[prev[i]] ELSE prev[i]]

\* `${x}` of an optional string
Interpolate(opt) == IF IsDefined(opt) THEN opt[1] ELSE S_undefined

\* characters of the reasoning text kept in the status line
PreviewLen == 80

(***************************************************************************)
(* The onUpdate callback sendMessage hands to handleSSEEvent: the          *)
(* accumulators final = [content, signalConfigs, conversationId,           *)
(* messageId] after updates u (each field optional).                       *)
(***************************************************************************)
NoUpdates == [content |-> None, signalConfigs |-> None,
              conversationId |-> None, messageId |-> None]

OnUpdate(final, u) ==
  [content |-> IF IsDefined(u.content) THEN u.content[1] ELSE final.content,
   signalConfigs |-> IF IsDefined(u.signalConfigs) THEN u.signalConfigs[1]
                     ELSE final.signalConfigs,
   conversationId |-> IF IsDefined(u.conversationId) /\ u.conversationId[1] # Null
                      THEN u.conversationId[1] ELSE final.conversationId,
   messageId |-> IF IsDefined(u.messageId) /\ u.messageId[1] # Null
                 THEN u.messageId[1] ELSE final.messageId]

(***************************************************************************)
(* handleSSEEvent(eventType, data, msgId, onUpdate) on                     *)
(* st = [messages, final, toasts, ...]: the message list after its         *)
(* setMessages, the accumulators after its onUpdate, the notifications     *)
(* after its toast.error.                                                  *)
(***************************************************************************)
SetStatus(m, data) == [m EXCEPT !.statusText = Get(data, "message")]

AddReasoning(m, data) ==
  LET c == Get(data, "content")
      reasoning == IF IsDefined(c) THEN c[1] ELSE << >>
  IN [m EXCEPT !.statusText = Some(S_Thinking \o SliceTo(reasoning, PreviewLen) \o S_Dots),
               !.analysisLog = Append(@, AnalysisEntry("reasoning", Some(reasoning),
                                                       None, None, None))]

SetContent(m, data) ==
  [m EXCEPT !.content = Get(data, "content"), !.statusText = None]

AddToolCall(m, data) ==
  [m EXCEPT !.statusText = Some(S_Calling \o Interpolate(Get(data, "name")) \o S_Dots),
            !.analysisLog = Append(@, AnalysisEntry("tool_call", None, Get(data, "name"),
                                                    Get(data, "arguments"), None))]

AddToolResult(m, data) ==
  [m EXCEPT !.statusText = Some(S_GotResultFrom \o Interpolate(Get(data, "name"))),
            !.analysisLog = Append(@, AnalysisEntry("tool_result", None, Get(data, "name"),
                                                    None, Get(data, "result")))]

\* the argument of onUpdate for a signal_config event
SignalConfigUpdates(data) ==
  [NoUpdates EXCEPT !.signalConfigs = Some(<<data.config>>)]

\* the argument of onUpdate for a done event
DoneUpdates(data) ==
  [content |-> Get(data, "content"),
   signalConfigs |-> Get(data, "signal_configs"),
   conversationId |-> Get(data, "conversation_id"),
   messageId |-> Get(data, "message_id")]

\* a variant of the error event that stops the streaming as well
RaiseError_Stops(st, data) ==
  [st EXCEPT !.toasts = Append(@, IF IsDefined(Get(data, "message"))
                                  THEN data.message ELSE S_AIGenerationFailed),
             !.messages = [i \in 1..Len(@) |-> [@[i] EXCEPT !.isStreaming = FALSE]]]

\* line 300: toast.error(data.message || 'AI generation failed')
RaiseError(st, data) ==
  [st EXCEPT !.toasts = Append(@, IF IsDefined(Get(data, "message"))
                                  THEN data.message ELSE S_AIGenerationFailed)]

HandleSSEEvent(eventType, data, msgId, st) ==
  IF eventType = T_status THEN
    [st EXCEPT !.messages = MapMsg(@, msgId, [m \in Range(@) |-> SetStatus(m, data)])]
  ELSE IF eventType = T_reasoning THEN
    [st EXCEPT !.messages = MapMsg(@, msgId, [m \in Range(@) |-> AddReasoning(m, data)])]
  ELSE IF eventType = T_content THEN
    [st EXCEPT !.final = OnUpdate(@, [NoUpdates EXCEPT !.content = Get(data, "content")]),
               !.messages = MapMsg(@, msgId, [m \in Range(@) |-> SetContent(m, data)])]
  ELSE IF eventType = T_signal_config THEN
    IF IsDefined(Get(data, "config"))
    THEN [st EXCEPT !.final = OnUpdate(@, SignalConfigUpdates(data))]
    ELSE st
  ELSE IF eventType = T_done THEN
    [st EXCEPT !.final = OnUpdate(@, DoneUpdates(data))]
  ELSE IF eventType = T_error THEN
    RaiseError(st, data)
  ELSE IF eventType = T_tool_call THEN
    [st EXCEPT !.messages = MapMsg(@, msgId, [m \in Range(@) |-> AddToolCall(m, data)])]
  ELSE IF eventType = T_tool_result THEN
    [st EXCEPT !.messages = MapMsg(@, msgId, [m \in Range(@) |-> AddToolResult(m, data)])]
  ELSE st

(***************************************************************************)
(* The body of sendMessage's for loop, for one line, on                    *)
(* st = [messages, final, toasts, currentEventType, dispatched];           *)
(* dispatched is the history of the calls of handleSSEEvent.               *)
(***************************************************************************)
\* a variant of ProcessData that dispatches an unparsable payload as an object
\* without fields instead of skipping it
ProcessData_NoSkip(st, p, msgId) ==
  [[HandleSSEEvent(st.currentEventType, IF p.ok THEN p.value ELSE V_errorNone, msgId, st)
    EXCEPT !.dispatched =
      Append(@, [type |-> st.currentEventType,
                 data |-> IF p.ok THEN p.value ELSE V_errorNone])]
   EXCEPT !.currentEventType = << >>]

\* lines 223-232 with p what JSON.parse made of the payload: the catch block is
\* empty, and the event type is reset either way
ProcessData(st, p, msgId) ==
  [(IF p.ok
    THEN [HandleSSEEvent(st.currentEventType, p.value, msgId, st)
          EXCEPT !.dispatched =
            Append(@, [type |-> st.currentEventType, data |-> p.value])]
    ELSE st)
   EXCEPT !.currentEventType = << >>]

ProcessLine(st, line, msgId) ==
  IF StartsWith(line, EventPrefix)
  THEN [st EXCEPT !.currentEventType = Trim(SliceFrom(line, 7))]
  ELSE IF StartsWith(line, DataPrefix)
  THEN ProcessData(st, JSONParse(SliceFrom(line, 6)), msgId)
  ELSE st

RECURSIVE ProcessLines(_, _, _)
ProcessLines(st, lines, msgId) ==
  IF lines = << >> THEN st
  ELSE ProcessLines(ProcessLine(st, lines[1], msgId), Tail(lines), msgId)

(***************************************************************************)
(* One turn of the while loop after reader.read() gave the bytes value:    *)
(* decode, append to the buffer, split, keep the last piece, process the   *)
(* lines.  st carries buffer and the decoder's pending bytes as well.      *)
(***************************************************************************)
\* a variant of ProcessBuffer that drops the unfinished last piece
ProcessBuffer_NoCarry(st, lines, msgId) ==
  ProcessLines([st EXCEPT !.buffer = << >>], Front(lines), msgId)

\* lines 214-234: the buffer is split, its last piece kept, the lines processed
ProcessBuffer(st, lines, msgId) ==
  ProcessLines([st EXCEPT !.buffer = Last(lines)], Front(lines), msgId)

\* line 213 on, with d what the decoder made of the chunk
ProcessDecoded(st, d, msgId) ==
  ProcessBuffer([st EXCEPT !.pending = d.pending], Split(st.buffer \o d.text), msgId)

ProcessChunk(st, value, msgId) ==
  ProcessDecoded(st, DecodeStream(st.pending, value), msgId)

(***************************************************************************)
(* The server.  A record of the event stream is an event line, a data line *)
(* and a blank line; a response body is the UTF-8 encoding of a text of    *)
(* records.  GET /conversations answers ServerConversations, and           *)
(* GET /conversations/{id}/messages answers ServerMessages(id).            *)
(***************************************************************************)
Record(type, json) ==
  EventPrefix \o type \o <<"\n">> \o DataPrefix \o json \o <<"\n", "\n">>

R_statusA == Record(T_status, J_statusA)
R_contentH == Record(T_content, J_contentH)
R_contentK == Record(T_content, J_contentK)
R_cfgA == Record(T_signal_config, J_cfgA)
R_cfgB == Record(T_signal_config, J_cfgB)
R_cfgBad == Record(T_signal_config, J_cfgBad)
R_done == Record(T_done, J_done)
R_doneNoCfg == Record(T_done, J_doneNoCfg)
R_reason == Record(T_reasoning, J_reason)
R_call == Record(T_tool_call, J_call)
R_result == Record(T_tool_result, J_result)
R_errorE == Record(T_error, J_errorE)
R_errorNone == Record(T_error, J_errorNone)
R_ping == Record(T_ping, J_statusA)
\* a record with CR LF line ends and no blank line after it
R_statusCRLF ==
  EventPrefix \o T_status \o <<"\r", "\n">> \o DataPrefix \o J_statusA \o <<"\r", "\n">>
\* a data line that the connection cut before its line feed
R_contentCut == EventPrefix \o T_content \o <<"\n">> \o DataPrefix \o J_contentK

\* the texts the chat session of Spec may receive
SessionTexts ==
  { R_reason \o R_contentK,
    R_done }

\* the texts a single send of SpecSend may receive
SendTexts ==
  { R_statusA \o R_contentK \o R_done,
    R_reason \o R_call \o R_result \o R_contentK,
    R_cfgA \o R_cfgB,
    R_cfgB \o R_doneNoCfg,
    R_done \o R_contentK,
    R_cfgBad \o R_statusA,
    R_errorE \o R_contentK,
    R_errorNone \o R_ping \o R_contentH,
    R_statusCRLF \o R_contentH \o R_contentCut,
    << >> }

SessionStreams == {Utf8Encode(t) : t \in SessionTexts}
SendStreams == {Utf8Encode(t) : t \in SendTexts}

ConvIds == {1, DoneConversationId}
ServerConversations == <<1, DoneConversationId>>

ServerMessages(c) ==
  IF c = 1
  THEN << Msg(11, "user", Some(<<"q">>), None, FALSE, None, << >>),
          Msg(12, "assistant", Some(<<"x">>), Some(<<CfgB>>), FALSE, None, << >>) >>
  ELSE << Msg(21, "user", Some(<<"h", "i">>), None, FALSE, None, << >>),
          Msg(22, "assistant", Some(<<"h", "U+E9">>), Some(<<CfgA>>), FALSE, None, << >>) >>

\* the AI account of the accounts prop
AiAccountId == 1

\* what the user may type
Inputs == { << >>, <<" ">>, <<" ", "h", "i", "\n">> }

(***************************************************************************)
(* State.                                                                  *)
(***************************************************************************)
VARIABLES
  \* React state of AiSignalChatModal
  selectedAccountId, conversations, loadingConversations, currentConversationId,
  messages, userInput, loading, allSignalConfigs,
  \* the activation of sendMessage: where it is suspended, and its locals
  pc, tempUserMsgId, closureConversationId, pending, buffer, final, currentEventType,
  \* the network: bytes of the response body not yet read, the number of
  \* chat-stream requests issued, loadMessages and loadConversations fetches
  \* in flight
  body, requests, msgFetches, convFetches,
  \* the notifications toast.error has raised since sendMessage was last called
  toasts,
  \* history: the response body as sent, the calls of handleSSEEvent of the
  \* current send, how the last call of sendMessage ended
  sent, dispatched, outcome,
  \* SignalCardsPanel: its configs prop, its React state, the activations of
  \* handleCreate that await their callback
  configs, creatingSignals, createdSignals, creates,
  \* history: the argument of the last call of onPreview, the key and the
  \* result of the last create callback that settled
  lastPreview, lastSettled

reactVars == <<selectedAccountId, conversations, loadingConversations,
               currentConversationId, messages, userInput, loading, allSignalConfigs>>
localVars == <<pc, tempUserMsgId, closureConversationId, pending, buffer, final,
               currentEventType>>
netVars == <<body, requests, msgFetches, convFetches>>
histVars == <<sent, dispatched, outcome>>
cardVars == <<configs, creatingSignals, createdSignals, creates, lastPreview, lastSettled>>
sessionVars == <<reactVars, localVars, netVars, toasts, histVars>>
vars == <<sessionVars, cardVars>>

tempAssistantMsgId == tempUserMsgId + 1

\* Date.now() at the n-th send: the clock has moved on between two sends
Now(n) == BaseTime + 2 * n

NoFinal == [content |-> << >>, signalConfigs |-> << >>,
            conversationId |-> Null, messageId |-> Null]

(***************************************************************************)
(* The effect on currentConversationId (lines 127-131): a render in which  *)
(* the id has changed to a conversation calls loadMessages for it.         *)
(***************************************************************************)
ConversationEffect(new) ==
  msgFetches' = IF new # currentConversationId /\ new # Null
                THEN [msgFetches EXCEPT ![new] = @ + 1]
                ELSE msgFetches

CanFetchMessages(new) ==
  new # currentConversationId /\ new # Null => msgFetches[new] < MaxLoads

\* loadConversations(), up to its fetch
CallLoadConversations ==
  /\ loadingConversations' = TRUE
  /\ convFetches' = convFetches + 1

(***************************************************************************)
(* Init: the modal has been opened and has rendered once; the effect of    *)
(* lines 116-124 has called loadConversations, and has selected the AI     *)
(* account if the accounts prop already holds it.                          *)
(***************************************************************************)
\* SignalCardsPanel as mounted (lines 555-556), with no config to show
PanelInit ==
  /\ configs = << >>
  /\ creatingSignals = {}
  /\ createdSignals = {}
  /\ creates = {}
  /\ lastPreview = None
  /\ lastSettled = None

SessionInit ==
  /\ selectedAccountId \in {Null, AiAccountId}
  /\ conversations = << >>
  /\ loadingConversations = TRUE
  /\ currentConversationId = Null
  /\ messages = << >>
  /\ userInput = << >>
  /\ loading = FALSE
  /\ allSignalConfigs = << >>
  /\ pc = "idle"
  /\ tempUserMsgId = Null
  /\ closureConversationId = Null
  /\ pending = << >>
  /\ buffer = << >>
  /\ final = NoFinal
  /\ currentEventType = << >>
  /\ body = << >>
  /\ requests = 0
  /\ msgFetches = [c \in ConvIds |-> 0]
  /\ convFetches = 1
  /\ toasts = << >>
  /\ sent = << >>
  /\ dispatched = << >>
  /\ outcome = "none"

Init == PanelInit /\ SessionInit

(***************************************************************************)
(* sendMessage (lines 168-257).  Its awaits cut it into steps: the call    *)
(* up to the fetch, the response, each read of the body, the end of the    *)
(* body, and the catch block for whatever is thrown on the way.            *)
(***************************************************************************)
\* lines 176-183: the optimistic user message and the placeholder
TempUserMsg(id, text) == Msg(id, "user", Some(text), None, FALSE, None, << >>)
TempAssistantMsg(id) ==
  Msg(id, "assistant", Some(<< >>), None, TRUE, Some(S_Connecting), << >>)

\* a variant of the guard that does not trim
SendGuardFails_NoTrim == userInput = << >> \/ selectedAccountId = Null

\* line 169: if (!userInput.trim() || !selectedAccountId) return
SendGuardFails == Trim(userInput) = << >> \/ selectedAccountId = Null

ResetLocals ==
  /\ tempUserMsgId' = Null
  /\ closureConversationId' = Null
  /\ pending' = << >>
  /\ buffer' = << >>
  /\ final' = NoFinal
  /\ currentEventType' = << >>
  /\ body' = << >>
  /\ sent' = << >>

\* lines 169-195
SendMessage ==
  IF SendGuardFails
  THEN /\ outcome' = "noop"
       /\ UNCHANGED <<cardVars, reactVars, localVars, netVars, toasts, sent, dispatched>>
  ELSE /\ requests < MaxSends
       /\ userInput' = << >>
       /\ loading' = TRUE
       /\ tempUserMsgId' = Now(requests)
       /\ messages' = messages \o << TempUserMsg(Now(requests), Trim(userInput)),
                                    TempAssistantMsg(Now(requests) + 1) >>
       /\ closureConversationId' = currentConversationId
       /\ requests' = requests + 1
       /\ toasts' = << >>
       /\ pc' = "fetch"
       /\ outcome' = "pending"
       /\ sent' = << >>
       /\ dispatched' = << >>
       /\ UNCHANGED <<cardVars, selectedAccountId, conversations, loadingConversations,
                      currentConversationId, allSignalConfigs, pending, buffer,
                      final, currentEventType, body, msgFetches, convFetches>>

\* lines 197-208: the response is OK and has a body
FetchOk(streams) ==
  /\ pc = "fetch"
  /\ \E b \in streams : body' = b /\ sent' = b
  /\ pending' = << >>
  /\ buffer' = << >>
  /\ final' = NoFinal
  /\ currentEventType' = << >>
  /\ pc' = "read"
  /\ UNCHANGED <<cardVars, reactVars, tempUserMsgId, closureConversationId, requests,
                 msgFetches, convFetches, toasts, dispatched, outcome>>

\* a variant of the filter that removes the user message only
RemoveTemp_OnlyUser(prev, userId, assistantId) ==
  SelectSeq(prev, LAMBDA m : m.id # userId)

\* prev.filter(m => m.id !== tempUserMsgId && m.id !== tempAssistantMsgId)
RemoveTemp(prev, userId, assistantId) ==
  SelectSeq(prev, LAMBDA m : m.id # userId /\ m.id # assistantId)

\* a variant of sendMessage without the finally block
Finally_None == loading' = loading

\* lines 254-256: finally { setLoading(false) }
Finally == loading' = FALSE

\* lines 250-256: catch and finally
Catch ==
  /\ toasts' = Append(toasts, S_FailedToSend)
  /\ messages' = RemoveTemp(messages, tempUserMsgId, tempAssistantMsgId)
  /\ Finally
  /\ pc' = "idle"
  /\ outcome' = "failed"
  /\ ResetLocals
  /\ UNCHANGED <<cardVars, selectedAccountId, conversations, loadingConversations,
                 currentConversationId, userInput, allSignalConfigs, requests,
                 msgFetches, convFetches, dispatched>>

\* fetch rejects, or lines 197-198 throw: the response is not OK or has no body
FetchFail ==
  /\ pc = "fetch"
  /\ Catch

\* where the body b may be cut: anywhere, or only after a line feed
AllCuts(b) == 1..Len(b)
LineCuts(b) == {k \in 1..Len(b) : b[k] = "\n" \/ k = Len(b)}

\* what the while loop of lines 210-235 works on, as the variables hold it
LoopState ==
  [messages |-> messages, final |-> final, toasts |-> toasts,
   currentEventType |-> currentEventType, dispatched |-> dispatched,
   pending |-> pending, buffer |-> buffer]

\* lines 210-235: reader.read() gives the next k bytes of the body, the body
\* being cut at one of cuts
ReadChunk(cuts) ==
  /\ pc = "read"
  /\ \E k \in cuts :
       \E st \in {ProcessChunk(LoopState, SubSeq(body, 1, k), tempAssistantMsgId)} :
          /\ messages' = st.messages
          /\ final' = st.final
          /\ toasts' = st.toasts
          /\ currentEventType' = st.currentEventType
          /\ dispatched' = st.dispatched
          /\ pending' = st.pending
          /\ buffer' = st.buffer
          /\ body' = SubSeq(body, k + 1, Len(body))
  /\ UNCHANGED <<cardVars, selectedAccountId, conversations, loadingConversations,
                 currentConversationId, userInput, loading, allSignalConfigs,
                 pc, tempUserMsgId, closureConversationId, requests, msgFetches,
                 convFetches, sent, outcome>>

\* reader.read() rejects: the connection broke
ReadError ==
  /\ pc = "read"
  /\ Catch

\* variants of the finalization: one keeps the streamed content, one keeps the
\* status text, one keeps the streaming flag
FinalizeMsg_KeepContent(m, fin) ==
  [m EXCEPT !.signal_configs = Some(fin.signalConfigs),
            !.isStreaming = FALSE,
            !.statusText = None]

FinalizeMsg_KeepStatus(m, fin) ==
  [m EXCEPT !.content = Some(fin.content),
            !.signal_configs = Some(fin.signalConfigs),
            !.isStreaming = FALSE]

FinalizeMsg_KeepStreaming(m, fin) ==
  [m EXCEPT !.content = Some(fin.content),
            !.signal_configs = Some(fin.signalConfigs),
            !.statusText = None]

\* lines 238-242: the finalized form of the placeholder
FinalizeMsg(m, fin) ==
  [m EXCEPT !.content = Some(fin.content),
            !.signal_configs = Some(fin.signalConfigs),
            !.isStreaming = FALSE,
            !.statusText = None]

\* line 246: the conversation id of the closure, not the current state
Adopts == closureConversationId = Null /\ final.conversationId # Null

\* lines 211, 237-249, 255: reader.read() reports done
ReadEnd ==
  /\ pc = "read"
  /\ body = << >>
  /\ messages' = MapMsg(messages, tempAssistantMsgId,
                        [m \in Range(messages) |-> FinalizeMsg(m, final)])
  /\ allSignalConfigs' = IF Len(final.signalConfigs) > 0
                         THEN allSignalConfigs \o final.signalConfigs
                         ELSE allSignalConfigs
  /\ IF Adopts
     THEN /\ CanFetchMessages(final.conversationId)
          /\ currentConversationId' = final.conversationId
          /\ ConversationEffect(final.conversationId)
          /\ CallLoadConversations
     ELSE UNCHANGED <<currentConversationId, msgFetches, loadingConversations,
                      convFetches>>
  /\ Finally
  /\ pc' = "idle"
  /\ outcome' = "done"
  /\ ResetLocals
  /\ UNCHANGED <<cardVars, selectedAccountId, conversations, userInput, requests, toasts,
                 dispatched>>

(***************************************************************************)
(* The controls of ChatArea (lines 520-536).                               *)
(***************************************************************************)
\* a variant of the textarea that stays enabled while a send is in flight
TextareaDisabled_NoLoading == selectedAccountId = Null

TextareaDisabled == loading \/ selectedAccountId = Null
SendDisabled == loading \/ Trim(userInput) = << >> \/ selectedAccountId = Null

\* onChange of the textarea
SetUserInput ==
  /\ ~TextareaDisabled
  /\ \E v \in Inputs : v # userInput /\ userInput' = v
  /\ UNCHANGED <<cardVars, selectedAccountId, conversations, loadingConversations,
                 currentConversationId, messages, loading, allSignalConfigs,
                 localVars, netVars, toasts, histVars>>

\* Enter in the textarea
PressEnter == ~TextareaDisabled /\ SendMessage

\* the Send button
ClickSend == ~SendDisabled /\ SendMessage

(***************************************************************************)
(* Conversations (lines 116-166, 330-334, 400-419).                        *)
(***************************************************************************)
LoadConversationsOk ==
  /\ convFetches > 0
  /\ conversations' = ServerConversations
  /\ loadingConversations' = FALSE
  /\ convFetches' = convFetches - 1
  /\ UNCHANGED <<cardVars, selectedAccountId, currentConversationId, messages, userInput,
                 loading, allSignalConfigs, localVars, body, requests, msgFetches,
                 toasts, histVars>>

LoadConversationsFail ==
  /\ convFetches > 0
  /\ loadingConversations' = FALSE
  /\ convFetches' = convFetches - 1
  /\ UNCHANGED <<cardVars, selectedAccountId, conversations, currentConversationId, messages,
                 userInput, loading, allSignalConfigs, localVars, body, requests,
                 msgFetches, toasts, histVars>>

\* a conversation of the list is picked in the Select
SelectConversation ==
  \E c \in {conversations[i] : i \in 1..Len(conversations)} :
    /\ c # currentConversationId
    /\ CanFetchMessages(c)
    /\ currentConversationId' = c
    /\ ConversationEffect(c)
    /\ UNCHANGED <<cardVars, selectedAccountId, conversations, loadingConversations, messages,
                   userInput, loading, allSignalConfigs, localVars, body, requests,
                   convFetches, toasts, histVars>>

\* a variant of startNewConversation that keeps the aggregate config list
StartNewConversation_KeepsConfigs ==
  /\ currentConversationId' = Null
  /\ messages' = << >>
  /\ UNCHANGED <<cardVars, selectedAccountId, conversations, loadingConversations, userInput,
                 loading, allSignalConfigs, localVars, netVars, toasts, histVars>>

\* lines 330-334
StartNewConversation ==
  /\ currentConversationId' = Null
  /\ messages' = << >>
  /\ allSignalConfigs' = << >>
  /\ UNCHANGED <<cardVars, selectedAccountId, conversations, loadingConversations, userInput,
                 loading, localVars, netVars, toasts, histVars>>

\* lines 155-160: the configs of the assistant messages, in message order
RECURSIVE CollectConfigs(_)
CollectConfigs(ms) ==
  IF ms = << >> THEN << >>
  ELSE (IF ms[1].role = "assistant" /\ IsDefined(ms[1].signal_configs)
        THEN ms[1].signal_configs[1] ELSE << >>) \o CollectConfigs(Tail(ms))

\* lines 150-162: the fetch of loadMessages(c) answers OK
LoadMessagesOk ==
  \E c \in ConvIds :
    /\ msgFetches[c] > 0
    /\ msgFetches' = [msgFetches EXCEPT ![c] = @ - 1]
    /\ messages' = ServerMessages(c)
    /\ allSignalConfigs' = CollectConfigs(ServerMessages(c))
    /\ UNCHANGED <<cardVars, selectedAccountId, conversations, loadingConversations,
                   currentConversationId, userInput, loading, localVars, body,
                   requests, convFetches, toasts, histVars>>

\* the fetch of loadMessages(c) answers not OK, or rejects
LoadMessagesFail ==
  \E c \in ConvIds :
    /\ msgFetches[c] > 0
    /\ msgFetches' = [msgFetches EXCEPT ![c] = @ - 1]
    /\ UNCHANGED <<cardVars, reactVars, localVars, body, requests, convFetches, toasts, histVars>>

(***************************************************************************)
(* Spec: the chat session as the user drives it.  The network hands the    *)
(* body over a whole number of lines at a time; SpecSend cuts it anywhere. *)
(***************************************************************************)
Next ==
  \/ SetUserInput
  \/ PressEnter
  \/ ClickSend
  \/ FetchOk(SessionStreams)
  \/ FetchFail
  \/ ReadChunk(LineCuts(body))
  \/ ReadEnd
  \/ ReadError
  \/ LoadConversationsOk
  \/ LoadConversationsFail
  \/ SelectConversation
  \/ StartNewConversation
  \/ LoadMessagesOk
  \/ LoadMessagesFail

Spec == Init /\ [][Next]_vars

(***************************************************************************)
(* SpecSend: one call of sendMessage, from every state of its inputs       *)
(* (sendMessage is a prop of ChatArea, and its guard is its own), with     *)
(* every response body of SendStreams cut into chunks in every way.        *)
(***************************************************************************)
InitSend ==
  /\ PanelInit
  /\ selectedAccountId \in {Null, AiAccountId}
  /\ conversations = ServerConversations
  /\ loadingConversations = FALSE
  /\ currentConversationId \in {Null, 1}
  /\ messages = IF currentConversationId = Null THEN << >> ELSE ServerMessages(1)
  /\ userInput \in Inputs
  /\ loading = FALSE
  /\ allSignalConfigs = CollectConfigs(messages)
  /\ pc = "idle"
  /\ tempUserMsgId = Null
  /\ closureConversationId = Null
  /\ pending = << >>
  /\ buffer = << >>
  /\ final = NoFinal
  /\ currentEventType = << >>
  /\ body = << >>
  /\ requests = 0
  /\ msgFetches = [c \in ConvIds |-> 0]
  /\ convFetches = 0
  /\ toasts = << >>
  /\ sent = << >>
  /\ dispatched = << >>
  /\ outcome = "none"

\* sendMessage() while no call of it is in flight
CallSendMessage == pc = "idle" /\ SendMessage

NextSend ==
  \/ CallSendMessage
  \/ FetchOk(SendStreams)
  \/ FetchFail
  \/ ReadChunk(AllCuts(body))
  \/ ReadEnd
  \/ ReadError

SpecSend == InitSend /\ [][NextSend]_vars

(***************************************************************************)
(* SignalCardsPanel, SignalCard and SignalPoolCard (lines 544-780).  The   *)
(* fields of a config are JavaScript values: an absent field is None, a    *)
(* string is Str of its characters, a number is Num of its digits.         *)
(***************************************************************************)
Str(s) == [t |-> "string", v |-> s]
Num(n) == [t |-> "number", v |-> n]
Zero == <<"0">>
Five == <<"5">>

\* the truthiness of an optional field
Truthy(opt) ==
  /\ opt # None
  /\ IF opt[1].t = "string" THEN opt[1].v # << >> ELSE opt[1].v # Zero

\* trigger_condition, and an entry of signals
Cond(metric, operator, threshold) ==
  [metric |-> metric, operator |-> operator, threshold |-> threshold]

\* a SignalConfig (lines 23-46)
Card(name, type, cond, signals) ==
  [name |-> name, type |-> type, trigger_condition |-> cond, signals |-> signals]

M_taker_volume == <<"t", "a", "k", "e", "r", "_", "v", "o", "l", "u", "m", "e">>
M_oi == <<"o", "i">>
S_signalDash == <<"s", "i", "g", "n", "a", "l", "-">>

\* line 640: config.trigger_condition || {}
CondOf(config) ==
  IF config.trigger_condition = None THEN Cond(None, None, None)
  ELSE config.trigger_condition[1]

\* lines 641-642
IsTakerVolume(cond) == cond.metric = Some(Str(M_taker_volume))
HasValidMetric(cond) == Truthy(cond.metric) /\ cond.metric[1].t = "string"

\* a variant of isValid without the taker_volume exemption
IsValid_NoExemption(config) ==
  /\ HasValidMetric(CondOf(config))
  /\ Truthy(CondOf(config).operator) /\ CondOf(config).threshold # None

\* lines 645-647: isValid of SignalCard
IsValid(config) ==
  /\ HasValidMetric(CondOf(config))
  /\ \/ IsTakerVolume(CondOf(config))
     \/ Truthy(CondOf(config).operator) /\ CondOf(config).threshold # None

\* lines 735-736: isValid of SignalPoolCard
PoolIsValid(config) ==
  /\ Len(config.signals) > 0
  /\ \A i \in 1..Len(config.signals) :
       /\ Truthy(config.signals[i].metric)
       /\ Truthy(config.signals[i].operator)
       /\ config.signals[i].threshold # None

\* line 590
IsPool(config) == config.type = "pool"

\* `${idx}` for idx the JavaScript index of the card at place i
IndexText(i) == << <<"0", "1", "2", "3", "4", "5", "6", "7", "8", "9">>[i] >>

\* lines 559, 589: config.name || `signal-${idx}`.  The card at place i is the
\* object configs[i]; configs.indexOf(config) finds it at its own place, the
\* configs of the list being distinct objects
SignalKey(config, i) ==
  IF Truthy(config.name) THEN config.name[1].v ELSE S_signalDash \o IndexText(i)

\* what the card at place i is rendered with (lines 588-611)
KeyAt(i) == SignalKey(configs[i], i)
IsCreating(i) == KeyAt(i) \in creatingSignals
IsCreated(i) == KeyAt(i) \in createdSignals

\* lines 707, 710-718, 769-777: the buttons of the card at place i
PreviewDisabled(i) == ~IsValid(configs[i])
CreateShown(i) == ~IsCreated(i)
CreateDisabled(i) ==
  \/ ~(IF IsPool(configs[i]) THEN PoolIsValid(configs[i]) ELSE IsValid(configs[i]))
  \/ IsCreating(i)

\* Preview of a SignalCard: onPreview(config)
ClickPreview ==
  \E i \in 1..Len(configs) :
    /\ ~IsPool(configs[i])
    /\ ~PreviewDisabled(i)
    /\ lastPreview' = Some(configs[i])
    /\ UNCHANGED <<sessionVars, configs, creatingSignals, createdSignals, creates,
                   lastSettled>>

\* lines 558-562: Create of a card, handleCreate up to its await
HandleCreate ==
  \E i \in 1..Len(configs) :
    /\ CreateShown(i)
    /\ ~CreateDisabled(i)
    /\ creatingSignals' = creatingSignals \cup {KeyAt(i)}
    /\ creates' = creates \cup {[signalKey |-> KeyAt(i), config |-> configs[i],
                                 isPool |-> IsPool(configs[i])]}
    /\ UNCHANGED <<sessionVars, configs, createdSignals, lastPreview, lastSettled>>

\* lines 566-572: finally
CreateFinally(call) ==
  /\ creatingSignals' = creatingSignals \ {call.signalKey}
  /\ creates' = creates \ {call}

\* a variant of handleCreate that does not look at the result of the callback
CreateResolves_Always(success) ==
  \E call \in creates :
    /\ createdSignals' = createdSignals \cup {call.signalKey}
    /\ CreateFinally(call)
    /\ lastSettled' = Some([signalKey |-> call.signalKey,
                            result |-> IF success THEN "true" ELSE "false"])
    /\ UNCHANGED <<sessionVars, configs, lastPreview>>

\* lines 562-572: onCreate or onCreatePool resolves with success
CreateResolves(success) ==
  \E call \in creates :
    /\ createdSignals' = IF success THEN createdSignals \cup {call.signalKey}
                         ELSE createdSignals
    /\ CreateFinally(call)
    /\ lastSettled' = Some([signalKey |-> call.signalKey,
                            result |-> IF success THEN "true" ELSE "false"])
    /\ UNCHANGED <<sessionVars, configs, lastPreview>>

\* lines 562, 566-572: onCreate or onCreatePool rejects
CreateRejects ==
  \E call \in creates :
    /\ CreateFinally(call)
    /\ lastSettled' = Some([signalKey |-> call.signalKey, result |-> "rejected"])
    /\ UNCHANGED <<sessionVars, configs, createdSignals, lastPreview>>

(***************************************************************************)
(* The configs the assistant may produce, and SpecCards: the panel shown   *)
(* with a list of one or two of them, a list that a later answer may add   *)
(* a config to (lines 243-245) while creations are pending.                *)
(***************************************************************************)
Greater == Str(<< ">" >>)

CardA == Card(Some(Str(<<"a">>)), "signal",
              Some(Cond(Some(Str(M_oi)), Some(Greater), Some(Num(Five)))), << >>)
\* a second config of the name "a"
CardA2 == Card(Some(Str(<<"a">>)), "signal",
               Some(Cond(Some(Str(M_taker_volume)), None, None)), << >>)
CardB == Card(Some(Str(<<"b">>)), "signal",
              Some(Cond(Some(Str(M_oi)), Some(Greater), Some(Num(Zero)))), << >>)
CardUnnamed == Card(None, "signal",
                    Some(Cond(Some(Str(M_oi)), Some(Greater), Some(Num(Five)))), << >>)
CardNoMetric == Card(Some(Str(<<"c">>)), "signal",
                     Some(Cond(None, Some(Greater), Some(Num(Five)))), << >>)
CardPool == Card(Some(Str(<<"p">>)), "pool", None,
                 << Cond(Some(Str(M_oi)), Some(Greater), Some(Num(Five))) >>)
CardPoolEmpty == Card(Some(Str(<< >>)), "pool", None, << >>)

PairCards == {CardA, CardA2, CardB, CardUnnamed, CardNoMetric, CardPool, CardPoolEmpty}

\* every shape of trigger_condition, in a config of the name "a"
Metrics == {None, Some(Str(<< >>)), Some(Str(M_taker_volume)), Some(Str(M_oi)), Some(Num(Five))}
Operators == {None, Some(Str(<< >>)), Some(Greater)}
Thresholds == {None, Some(Num(Zero)), Some(Num(Five))}
SingleCards ==
  {Card(Some(Str(<<"a">>)), "signal", Some(Cond(m, o, t)), << >>) :
     m \in Metrics, o \in Operators, t \in Thresholds}
  \cup {Card(Some(Str(<<"a">>)), "signal", None, << >>)}

CardLists ==
  {<<c>> : c \in SingleCards} \cup {<<c, d>> : c \in PairCards, d \in PairCards}

InitCards ==
  /\ SessionInit
  /\ selectedAccountId = AiAccountId
  /\ configs \in CardLists
  /\ creatingSignals = {}
  /\ createdSignals = {}
  /\ creates = {}
  /\ lastPreview = None
  /\ lastSettled = None

\* the parent renders the panel with a config more
ConfigAdded ==
  /\ Len(configs) < MaxCards
  /\ \E c \in PairCards : configs' = Append(configs, c)
  /\ UNCHANGED <<sessionVars, creatingSignals, createdSignals, creates, lastPreview,
                 lastSettled>>

NextCards ==
  \/ ClickPreview
  \/ HandleCreate
  \/ CreateResolves(TRUE)
  \/ CreateResolves(FALSE)
  \/ CreateRejects
  \/ ConfigAdded

SpecCards == InitCards /\ [][NextCards]_vars

(***************************************************************************)
(* Properties.  A step of sendMessage is told by the position it leaves:   *)
(* FinishStep is the step that takes lines 237-249 and the finally block,  *)
(* FailStep the step that takes the catch block.                           *)
(***************************************************************************)
FinishStep == pc = "read" /\ pc' = "idle" /\ outcome' = "done"
FailStep == pc # "idle" /\ outcome' = "failed"

Types(d) == [i \in 1..Len(d) |-> d[i].type]
HasDone(d) == \E i \in 1..Len(d) : d[i].type = T_done

\* the bytes of the body read so far
Consumed == SubSeq(sent, 1, Len(sent) - Len(body))

\* the loop state before the first read, and the loop state after one read
\* that delivers bytes in a single chunk
StartState ==
  [messages |-> MapMsg(messages, tempAssistantMsgId,
                      [m \in Range(messages) |-> TempAssistantMsg(m.id)]),
   final |-> NoFinal, toasts |-> << >>, currentEventType |-> << >>,
   dispatched |-> << >>, pending |-> << >>, buffer |-> << >>]
OneChunk(bytes) == ProcessChunk(StartState, bytes, tempAssistantMsgId)

C1_Prefix == pc = "read" => LoopState = OneChunk(Consumed)

C1_EndStep ==
  FinishStep =>
    \E ref \in {OneChunk(sent)} :
      /\ messages' = MapMsg(ref.messages, tempAssistantMsgId,
                            [m \in Range(ref.messages) |-> FinalizeMsg(m, ref.final)])
      /\ allSignalConfigs' = allSignalConfigs \o ref.final.signalConfigs

\* C1: however the response body is cut into chunks (in the middle of a line,
\* of a character, or not at all), the calls of handleSSEEvent, the
\* accumulators and the message list after the bytes read so far are those of
\* the same bytes delivered as one chunk; so are the final message list and
\* the final aggregate config list.
C1_ChunkBoundaryInvariance == [](C1_Prefix) /\ [][C1_EndStep]_vars

\* a chunk ended in the middle of a character and of a line, after an event
\* had been dispatched
C1_Witness ==
  pc = "read" /\ pending # << >> /\ buffer # << >> /\ dispatched # << >>

C2_Step ==
  FinishStep /\ Types(dispatched) = <<T_status, T_content, T_done>> =>
    \E p \in {dispatched[3].data} :
      /\ \E i \in DOMAIN messages' : messages'[i].id = tempAssistantMsgId
      /\ \A i \in DOMAIN messages' :
           messages'[i].id = tempAssistantMsgId =>
             /\ messages'[i].content = Some(p.content)
             /\ messages'[i].isStreaming = FALSE
             /\ messages'[i].statusText = None
             /\ messages'[i].signal_configs = Some(p.signal_configs)
      /\ allSignalConfigs' = allSignalConfigs \o p.signal_configs

\* C2: after a stream of a status, a content and a done record with content c
\* and configs L, the assistant message has content c, is not streaming, has
\* no status text and has the configs L, and the aggregate list is the list
\* of before the send followed by L.
C2_StatusContentDone == [][C2_Step]_vars

C2_Witness ==
  /\ outcome = "done"
  /\ Types(dispatched) = <<T_status, T_content, T_done>>
  /\ allSignalConfigs = <<CfgB, CfgA>>
  /\ \E i \in DOMAIN messages :
       /\ messages[i].id = BaseTime + 1
       /\ messages[i].content = Some(<<"h", "U+E9">>)
       /\ ~messages[i].isStreaming

C3_Step ==
  FailStep =>
    /\ \A i \in DOMAIN messages' :
         /\ messages'[i].id \notin {tempUserMsgId, tempAssistantMsgId}
         /\ ~messages'[i].isStreaming
    /\ toasts' = Append(toasts, S_FailedToSend)

\* C3: when sendMessage fails after the temporary messages were added (the
\* response is not OK or has no body, or a read fails), neither temporary
\* message is in the list afterwards, no message is streaming, and an error
\* notification has been raised.
C3_FailureRemovesTemporaries == [][C3_Step]_vars

\* a read failed after events had been applied, in a list that holds the
\* answer of an earlier send
C3_Witness ==
  /\ outcome = "failed"
  /\ dispatched # << >>
  /\ toasts = <<S_FailedToSend>>
  /\ \E i \in DOMAIN messages : messages[i].id = BaseTime + 1

\* C4: at every moment at most one message of the list has isStreaming = TRUE.
C4_AtMostOneStreaming ==
  Cardinality({i \in DOMAIN messages : messages[i].isStreaming}) <= 1

\* a second send is streaming below the finalized answer of the first
C4_Witness ==
  \E i, j \in DOMAIN messages :
    /\ i < j
    /\ messages[i].id = BaseTime + 1
    /\ ~messages[i].isStreaming
    /\ messages[j].isStreaming

\* sendMessage has run and has finished, by success or by failure
Finished == pc = "idle" /\ outcome \in {"done", "failed"}

\* C5 as stated: once sendMessage has finished, no message is streaming, has
\* a status text, or has a non-empty analysis log.
C5_AsStated ==
  Finished =>
    \A i \in DOMAIN messages :
      /\ ~messages[i].isStreaming
      /\ messages[i].statusText = None
      /\ messages[i].analysisLog = << >>

C5_Cleared ==
  Finished =>
    \A i \in DOMAIN messages :
      ~messages[i].isStreaming /\ messages[i].statusText = None

C5_LogKept ==
  FinishStep =>
    /\ Len(messages') = Len(messages)
    /\ \A i \in DOMAIN messages : messages'[i].analysisLog = messages[i].analysisLog

\* C5: once sendMessage has finished, by success or by failure, no message is
\* streaming and no message has a status text; the analysis log of the
\* answer is not cleared by a successful finish, every message keeps the log
\* it had.
C5_TransientFieldsCleared == [](C5_Cleared) /\ [][C5_LogKept]_vars

\* a send has finished and its answer still carries its analysis log
C5_Witness ==
  /\ Finished
  /\ outcome = "done"
  /\ \E i \in DOMAIN messages :
       /\ messages[i].analysisLog # << >>
       /\ ~messages[i].isStreaming
       /\ messages[i].statusText = None

\* the content of the last content event of d, '' if there is none, and the
\* list of the config of the last signal_config event of d
LastContent(d) ==
  LET S == {i \in 1..Len(d) : d[i].type = T_content /\ IsDefined(Get(d[i].data, "content"))}
  IN IF S = {} THEN << >> ELSE d[Max(S)].data.content

LastConfigs(d) ==
  LET S == {i \in 1..Len(d) : d[i].type = T_signal_config
                              /\ IsDefined(Get(d[i].data, "config"))}
  IN IF S = {} THEN << >> ELSE <<d[Max(S)].data.config>>

\* C6 as stated: when the stream ends and no done event has come, the
\* message list stays as the last event left it.
C6_AsStated == [][FinishStep /\ ~HasDone(dispatched) => messages' = messages]_vars

C6_Step ==
  FinishStep /\ ~HasDone(dispatched) =>
    messages' = MapMsg(messages, tempAssistantMsgId,
                       [m \in Range(messages) |->
                          [m EXCEPT !.content = Some(LastContent(dispatched)),
                                    !.signal_configs = Some(LastConfigs(dispatched)),
                                    !.isStreaming = FALSE,
                                    !.statusText = None]])

\* C6: when the stream ends and no done event has come, the finalization is
\* applied all the same: the placeholder gets isStreaming = FALSE, no status
\* text, the content of the last content event ('' if none) and the config of
\* the last signal_config event (none if there was none).
C6_EndWithoutDone == [][C6_Step]_vars

\* a stream that ended after a status event, without done: the answer is
\* finalized
C6_Witness ==
  /\ outcome = "done"
  /\ Types(dispatched) = <<T_status>>
  /\ \E i \in DOMAIN messages :
       /\ messages[i].id = BaseTime + 1
       /\ ~messages[i].isStreaming
       /\ messages[i].statusText = None

\* the configs of the signal_config events of d, in the order of the events
RECURSIVE AllConfigs(_)
AllConfigs(d) ==
  IF d = << >> THEN << >>
  ELSE (IF d[1].type = T_signal_config /\ IsDefined(Get(d[1].data, "config"))
        THEN <<d[1].data.config>> ELSE << >>) \o AllConfigs(Tail(d))

\* C7: while no done event has come, the accumulator of configs is the list
\* of the configs of the signal_config events so far, one appended by each
\* event.
C7_SignalConfigAppends ==
  pc = "read" /\ ~HasDone(dispatched) => final.signalConfigs = AllConfigs(dispatched)

\* the payload of the last done event of d
LastDone(d) == d[Max({i \in 1..Len(d) : d[i].type = T_done})].data

C8_Step ==
  FinishStep /\ HasDone(dispatched) =>
    \E p \in {LastDone(dispatched)} :
      \E i \in DOMAIN messages' :
        /\ messages'[i].id = p.message_id
        /\ messages'[i].content = Some(p.content)
        /\ messages'[i].signal_configs = Some(p.signal_configs)

\* C8: after a done event with message_id = m has been processed and
\* sendMessage has finished, the assistant message carries the id m and the
\* content and the configs of the payload, whatever records followed the done
\* event.
C8_DoneAdoptsAll == [][C8_Step]_vars

\* the text read so far, and its finished lines
DecodedText(bytes) == DecodeStream(<< >>, bytes).text
CompleteLines(bytes) == Front(Split(DecodedText(bytes)))

IsData(line) == StartsWith(line, DataPrefix)
IsValidData(line) == IsData(line) /\ JSONParse(SliceFrom(line, 6)).ok
IsBadData(line) == IsData(line) /\ ~JSONParse(SliceFrom(line, 6)).ok

\* the payloads of the data lines that are valid JSON
ValidPayloads(lines) ==
  LET valid == SelectSeq(lines, IsValidData)
  IN [i \in 1..Len(valid) |-> JSONParse(SliceFrom(valid[i], 6)).value]

\* lines joined by line feeds, the inverse of Split
RECURSIVE Join(_)
Join(lines) ==
  IF Len(lines) = 1 THEN lines[1]
  ELSE lines[1] \o <<"\n">> \o Join(Tail(lines))

\* text with each finished data line that is invalid JSON replaced by an
\* event line without a type: a line that resets the event type, as lines
\* 226-232 do for every data line, and does nothing else
BadReplaced(text) ==
  LET ls == Split(text)
  IN Join([i \in 1..Len(ls) |->
             IF i < Len(ls) /\ IsBadData(ls[i]) THEN EventPrefix ELSE ls[i]])

\* the invalid data lines read so far have left no trace: the message list,
\* the accumulators, the notifications and the handled events are those of
\* the text without them, and the aggregate list is that of the messages
\* loaded before the send
C9_NoTrace ==
  pc = "read" =>
    /\ \E ref \in {OneChunk(Utf8Encode(BadReplaced(DecodedText(Consumed))))} :
         /\ messages = ref.messages
         /\ final = ref.final
         /\ toasts = ref.toasts
         /\ dispatched = ref.dispatched
         /\ currentEventType = ref.currentEventType
         /\ buffer = ref.buffer
    /\ allSignalConfigs = CollectConfigs(SelectSeq(messages, LAMBDA m : m.id < BaseTime))

\* the events handled so far are those of the valid data lines read so far
C9_Continue ==
  pc = "read" =>
    [i \in 1..Len(dispatched) |-> dispatched[i].data] = ValidPayloads(CompleteLines(Consumed))

\* C9: a data line whose payload is not valid JSON is skipped: sendMessage
\* goes on reading, the line changes neither the message list, nor the
\* accumulators, nor the aggregate list, and the valid data lines around it,
\* those after it included, are all handled.
C9_InvalidJsonSkipped == C9_NoTrace /\ C9_Continue

\* a stream of a signal_config record cut off in its JSON and a status record
\* has been read: the status event alone was handled
C9_Witness ==
  /\ pc = "read"
  /\ body = << >>
  /\ sent = Utf8Encode(R_cfgBad \o R_statusA)
  /\ Types(dispatched) = <<T_status>>
  /\ final = NoFinal

\* C10: sendMessage called with an input that is empty or only whitespace, or
\* with no account selected, changes nothing: the message list, the aggregate
\* list, the loading flag, the input, the conversation id stay, and no
\* request is issued.
C10_NoOpSend ==
  [][pc = "idle" /\ (Trim(userInput) = << >> \/ selectedAccountId = Null)
     => UNCHANGED <<reactVars, localVars, netVars, toasts>>]_vars

\* sendMessage has returned at once for want of an account, the input holding
\* text
C10_Witness ==
  /\ outcome = "noop"
  /\ selectedAccountId = Null
  /\ Trim(userInput) # << >>
  /\ requests = 0
  /\ messages # << >>

\* the events of d handled one after the other, from the loop state st
RECURSIVE Replay(_, _, _)
Replay(st, d, msgId) ==
  IF d = << >> THEN st
  ELSE Replay(HandleSSEEvent(d[1].type, d[1].data, msgId, st), Tail(d), msgId)

HasError(d) == \E i \in 1..Len(d) : d[i].type = T_error
NonErrors(d) == SelectSeq(d, LAMBDA e : e.type # T_error)

\* the notifications of the error events of d
ErrorToasts(d) ==
  LET errors == SelectSeq(d, LAMBDA e : e.type = T_error)
  IN [i \in 1..Len(errors) |->
        IF IsDefined(Get(errors[i].data, "message"))
        THEN errors[i].data.message ELSE S_AIGenerationFailed]

\* C11: an error event only raises a notification: the message list and the
\* accumulators are those of the other events alone, every valid data line
\* read so far has been handled, those after the error event included, and
\* at the end of the body the finalization of the success path is what
\* sendMessage does next.
C11_ErrorOnlyNotifies ==
  pc = "read" =>
    /\ \E ref \in {Replay(StartState, NonErrors(dispatched), tempAssistantMsgId)} :
         messages = ref.messages /\ final = ref.final
    /\ toasts = ErrorToasts(dispatched)
    /\ [i \in 1..Len(dispatched) |-> dispatched[i].data]
         = ValidPayloads(CompleteLines(Consumed))
    /\ HasError(dispatched) /\ body = << >> => ENABLED ReadEnd

\* a send has completed by the success path after an error event and a
\* content event: the notification is there, the content is applied
C11_Witness ==
  /\ outcome = "done"
  /\ Types(dispatched) = <<T_error, T_content>>
  /\ toasts = << <<"E">> >>
  /\ \E i \in DOMAIN messages :
       /\ messages[i].id = BaseTime + 1
       /\ messages[i].content = Some(<<"k">>)
       /\ ~messages[i].isStreaming

\* the loading flag is true exactly while a send is in flight
C12_LoadingWhileInFlight == loading <=> pc # "idle"

\* the step that ends sendMessage leaves the controls free of the loading
\* flag: the textarea is enabled, and the Send button is disabled for want of
\* text only
C12_Step ==
  FinishStep \/ FailStep =>
    /\ loading' = FALSE
    /\ ~TextareaDisabled'
    /\ SendDisabled' <=> Trim(userInput') = << >>

\* C12: whenever sendMessage finishes, by failure or by the end of the
\* stream, the loading flag is false and the send controls are enabled again
\* (the textarea at once, the button as soon as there is text); the loading
\* flag is true only while a send is in flight.
C12_UsableAfterFinish == [](C12_LoadingWhileInFlight) /\ [][C12_Step]_vars

\* a send has failed, the user has typed again and the Send button is enabled
C12_Witness ==
  /\ outcome = "failed"
  /\ requests = 1
  /\ ~loading
  /\ ~TextareaDisabled
  /\ ~SendDisabled

C13_Step ==
  FinishStep =>
    /\ currentConversationId # Null =>
         /\ currentConversationId' = currentConversationId
         /\ convFetches' = convFetches
    /\ currentConversationId = Null /\ closureConversationId = Null
         /\ final.conversationId # Null =>
         /\ currentConversationId' = final.conversationId
         /\ convFetches' = convFetches + 1
    /\ final.conversationId = Null =>
         /\ currentConversationId' = currentConversationId
         /\ convFetches' = convFetches

\* C13: when a send completes, the conversation id of the stream is adopted
\* and the conversation list fetched again if no conversation was selected,
\* at the send and at the completion; if a conversation is selected at the
\* completion, the one chosen while the stream was in flight included, the
\* selected id stays and no list is fetched.
C13_AdoptionOnlyWhenNoneSelected == [][C13_Step]_vars

C14_Step ==
  StartNewConversation =>
    /\ currentConversationId' = Null
    /\ messages' = << >>
    /\ allSignalConfigs' = << >>
    /\ UNCHANGED <<requests, msgFetches, convFetches, body>>
    /\ UNCHANGED <<conversations, loadingConversations, selectedAccountId,
                   userInput, loading>>

\* C14: startNewConversation sets the selected conversation id to none, the
\* message list and the aggregate config list to empty, issues no request
\* and no fetch, and leaves the conversation list, the selected account, the
\* input and the loading flag as they were.
C14_NewConversationFrame == [][C14_Step]_vars

\* New conversation was chosen while a stream was being read: the lists are
\* empty, the send is still in flight
C14_Witness ==
  /\ currentConversationId = Null
  /\ messages = << >>
  /\ allSignalConfigs = << >>
  /\ conversations # << >>
  /\ pc = "read"
  /\ dispatched # << >>
  /\ loading

\* no send and no message load is in flight
Quiet == pc = "idle" /\ \A c \in ConvIds : msgFetches[c] = 0

\* C18: in every state where no send and no message load is in flight, the
\* aggregate config list is the concatenation, in message order, of the
\* signal_configs of the assistant messages of the message list.
C18_AggregateMatchesMessages == Quiet => allSignalConfigs = CollectConfigs(messages)

\* the message list of the selected conversation c, none being conversation 0
MessagesOf(c) == IF c = Null THEN << >> ELSE ServerMessages(c)

\* a message fetch answers, and is the last one in flight
LastLoadAnswers ==
  /\ \E c \in ConvIds : msgFetches' = [msgFetches EXCEPT ![c] = @ - 1]
  /\ \A c \in ConvIds : msgFetches'[c] = 0

C19_Step ==
  requests = 0 /\ LastLoadAnswers /\ LoadMessagesOk =>
    /\ messages' = MessagesOf(currentConversationId)
    /\ allSignalConfigs' = CollectConfigs(MessagesOf(currentConversationId))

\* C19: when conversations were selected one after the other (or New
\* conversation after a selection) and no message was sent, then once the last
\* message fetch has answered the message list and the aggregate config list
\* are those of the conversation selected now, empty for none.
C19_NoStaleLoad == [][C19_Step]_vars

\* what the fields of a single-signal config say: it has a metric (a
\* non-empty string), the metric is taker_volume, it has an operator (a
\* non-empty string), it has a threshold (any number, 0 included)
HasField(c, f) == c.trigger_condition # None /\ c.trigger_condition[1][f] # None
HasMetric(c) ==
  /\ HasField(c, "metric")
  /\ c.trigger_condition[1].metric[1].t = "string"
  /\ c.trigger_condition[1].metric[1].v # << >>
MetricIsTakerVolume(c) ==
  HasMetric(c) /\ c.trigger_condition[1].metric[1].v = M_taker_volume
HasOperator(c) ==
  HasField(c, "operator") /\ c.trigger_condition[1].operator[1].v # << >>
HasThreshold(c) == HasField(c, "threshold")
ValidAsSpecified(c) ==
  HasMetric(c) /\ (MetricIsTakerVolume(c) \/ (HasOperator(c) /\ HasThreshold(c)))

\* C15: a single-signal config is valid exactly if it has a metric and (the
\* metric is taker_volume, or it has an operator and a threshold); without a
\* metric it is never valid, with taker_volume and neither operator nor
\* threshold it is valid; Preview and Create are enabled, and onPreview and
\* the create callback called, for valid configs only.
C15_SingleSignalValidity ==
  /\ \A i \in 1..Len(configs) :
       ~IsPool(configs[i]) =>
         /\ IsValid(configs[i]) <=> ValidAsSpecified(configs[i])
         /\ ~HasField(configs[i], "metric") => ~IsValid(configs[i])
         /\ MetricIsTakerVolume(configs[i]) /\ ~HasOperator(configs[i])
              /\ ~HasThreshold(configs[i]) => IsValid(configs[i])
         /\ ~PreviewDisabled(i) => ValidAsSpecified(configs[i])
         /\ CreateShown(i) /\ ~CreateDisabled(i) => ValidAsSpecified(configs[i])
  /\ lastPreview # None => ValidAsSpecified(lastPreview[1])
  /\ \A call \in creates : ~call.isPool => ValidAsSpecified(call.config)

\* a taker_volume config with neither operator nor threshold has been
\* previewed and is being created, beside a config without a metric
C15_Witness ==
  /\ configs = <<CardA2, CardNoMetric>>
  /\ lastPreview = Some(CardA2)
  /\ \E call \in creates : call.config = CardA2

C16_Step ==
  /\ createdSignals \subseteq createdSignals'
  /\ \A i \in 1..Len(configs) :
       IsCreated(i) => i <= Len(configs') /\ KeyAt(i)' = KeyAt(i) /\ ~CreateShown(i)'
  /\ \A k \in createdSignals' \ createdSignals :
       /\ lastSettled' = Some([signalKey |-> k, result |-> "true"])
       /\ \E call \in creates : call.signalKey = k /\ call \notin creates'

\* C16: no step takes a key out of the created set, so a card whose key is
\* in it shows the created indicator, not the Create button, in every later
\* state; and a key enters the set only in the step in which a create
\* callback pending for that key resolves truthy.
C16_CreatedIsPermanent == [][C16_Step]_vars

\* card "a" was created, and after it the creation of card "b" resolved
\* false: "a" is still created, "b" is not
C16_Witness ==
  /\ configs = <<CardA, CardB>>
  /\ createdSignals = {<<"a">>}
  /\ lastSettled = Some([signalKey |-> <<"b">>, result |-> "false"])
  /\ ~CreateShown(1)
  /\ CreateShown(2)

C17_KeysDiffer ==
  \A i, j \in 1..Len(configs) : i # j => KeyAt(i) # KeyAt(j)

StatusChanged(i) ==
  \/ IsCreating(i)' # IsCreating(i)
  \/ IsCreated(i)' # IsCreated(i)

\* a step starts, finishes or succeeds the creation of one card, so it
\* changes the status shown by at most one card
C17_Step ==
  \A i, j \in 1..Len(configs) :
    StatusChanged(i) /\ StatusChanged(j) => i = j

\* C17: any two distinct cards of the list have different keys, and no step
\* changes the creating or created status shown by more than one card.
C17_DisjointBookkeeping == []C17_KeysDiffer /\ [][C17_Step]_vars
====
